---- MODULE Spec2Model ----
(***************************************************************************)
(* Model of src/components/GestureController.tsx: the webcam ingestion     *)
(* loop (setupMediaPipe, startWebcam, predictWebcam), the feature          *)
(* extractor and debounced classifier (detectGesture, handleNoHand), the   *)
(* effect that refreshes lastModeRef, and the effect cleanup.              *)
(*                                                                         *)
(* One effect instance is modelled from its first run to its cleanup.      *)
(* Every callback of the component runs to completion on the single        *)
(* JavaScript thread, so each callback is one action.                      *)
(***************************************************************************)
EXTENDS Integers, Sequences, FiniteSets, TLC

\* ------------------------------------------------------------ constants

\* const CONFIDENCE_THRESHOLD = 5;
CONFIDENCE_THRESHOLD == 5

\* Bound on the run counters explored by Spec (frames that would push a
\* counter past it are not fed).
MaxRun == 7

\* Bound on the number of loadeddata events the video element dispatches.
MaxLoadedData == 2

\* TreeMode members used by the component.
Modes == {"FORMED", "CHAOS"}

\* ------------------------------------------------------------ landmarks

\* Landmark indices read by detectGesture.
WRIST == 0
fingerTips == <<8, 12, 16, 20>>
fingerBases == <<5, 9, 13, 17>>

\* Coordinates are normalised frame coordinates in units of 1/100.
\* Finger f of a hand with its wrist at w: the base knuckle 5 above the
\* wrist and BaseDx[f] to the side, the tip 10 above the wrist when the
\* finger is stretched and 4 above it when curled.
BaseDx == <<-3, -1, 1, 3>>

Finger(w, f, stretched) ==
    LET base == <<w[1] + BaseDx[f], w[2] - 5>>
        tip  == <<w[1] + BaseDx[f], w[2] - (IF stretched THEN 10 ELSE 4)>>
    IN  <<base, base, tip, tip>>

\* The 21 landmarks of a hand, landmark i at position i + 1.
MakeHand(w, ext) ==
    <<w>> \o <<w, w, w, w>> \o Finger(w, 1, 1 \in ext) \o Finger(w, 2, 2 \in ext)
          \o Finger(w, 3, 3 \in ext) \o Finger(w, 4, 4 \in ext)

\* landmarks[i]
At(landmarks, i) == landmarks[i + 1]

\* The first hand of a frame: at WristA with 0..4 fingers stretched, or at
\* WristB fully closed or fully open.
WristA == <<50, 50>>
WristB == <<30, 60>>
ExtPatterns == {{}, {2}, {1, 2}, {1, 2, 3}, {1, 2, 3, 4}}
Hands ==
    {MakeHand(WristA, e) : e \in ExtPatterns}
        \cup {MakeHand(WristB, e) : e \in {{}, {1, 2, 3, 4}}}

\* A second hand, when one is detected, is one of these.
SecondHands == {MakeHand(<<70, 40>>, e) : e \in {{}, {1, 2, 3, 4}}}

\* result.landmarks: no hand, one hand, or two.
HandLists ==
    {<<>>} \cup {<<h>> : h \in Hands} \cup {<<h, g>> : h \in Hands, g \in SecondHands}

\* What handLandmarker.detectForVideo can do: throw, or return 0..2 hands.
DetectResults ==
    {[throws |-> TRUE, landmarks |-> <<>>]}
        \cup {[throws |-> FALSE, landmarks |-> hs] : hs \in HandLists}

\* Squared Math.hypot(a.x - b.x, a.y - b.y).
Dist2(a, b) == (a[1] - b[1]) * (a[1] - b[1]) + (a[2] - b[2]) * (a[2] - b[2])

\* distTip > distBase * 1.5, compared on squares (both sides are >= 0).
IsExtended(landmarks, i) ==
    \E wrist \in {At(landmarks, WRIST)}, tip \in {At(landmarks, fingerTips[i])},
       base \in {At(landmarks, fingerBases[i])} :
        4 * Dist2(tip, wrist) > 9 * Dist2(base, wrist)

\* The loop over the four non-thumb fingers.
ExtendedFingers(landmarks) == Cardinality({i \in 1..4 : IsExtended(landmarks, i)})

\* Mutant of PalmCenter: the wrist alone.
PalmCenter_WristOnly(landmarks) == At(landmarks, WRIST)

\* palmX, palmY: the mean of the wrist and the four base knuckles.
PalmCenter(landmarks) ==
    << (At(landmarks, 0)[1] + At(landmarks, 5)[1] + At(landmarks, 9)[1]
          + At(landmarks, 13)[1] + At(landmarks, 17)[1]) \div 5,
       (At(landmarks, 0)[2] + At(landmarks, 5)[2] + At(landmarks, 9)[2]
          + At(landmarks, 13)[2] + At(landmarks, 17)[2]) \div 5 >>

\* ------------------------------------------------------------ state

VARIABLES
    mode,             \* the owner's Mode, passed down as currentMode
    lastModeRef,      \* lastModeRef.current
    openFrames,       \* openFrames.current
    closedFrames,     \* closedFrames.current
    gestureStatus,    \* useState gestureStatus
    handPos,          \* last onHandPosition report: <<x, y, detected>>
    twoHands,         \* last onTwoHandsDetected report
    isLoaded,         \* useState isLoaded
    isMounted,        \* the effect closure's liveness flag
    handLandmarker,   \* "null", or the detector: "open" / "closed"
    setupPc,          \* where setupMediaPipe / startWebcam is suspended
    videoRef,         \* videoRef.current: "video" or "null"
    listener,         \* predictWebcam is registered for loadeddata
    loadedCount,      \* loadeddata events dispatched so far
    rafPending,       \* number of frame callbacks requested and not yet run
    idPending,        \* animationFrameId names one of them
    io,               \* what the last step did: frame kind, onModeChange call
    runFrom,          \* history: how the current run of frames began
    runEmits,         \* history: onModeChange calls in the current run
    runFlips,         \* history: changes of mode made by the current run
    script,           \* the frames still to feed (scripted specifications)
    log,              \* the frames fed (scripted specifications)
    progressRef,      \* Foliage: progressRef.current, also uniform uProgress
    elapsedTime,      \* state.clock.elapsedTime, also uniform uTime
    matrix,           \* Ornaments: the instance matrices, decomposed
    shadow,           \* history: frames run, and the same run without jitter
    data,             \* the useMemo results: generated lists and attributes
    trip              \* SpecRoundTrip: the stage of the round trip

vars == <<mode, lastModeRef, openFrames, closedFrames, gestureStatus, handPos,
          twoHands, isLoaded, isMounted, handLandmarker, setupPc, videoRef,
          listener, loadedCount, rafPending, idPending, io,
          runFrom, runEmits, runFlips, script, log,
          progressRef, elapsedTime, matrix, shadow, data, trip>>

classifierVars == <<openFrames, closedFrames, gestureStatus, handPos, twoHands>>
historyVars == <<runFrom, runEmits, runFlips>>
scriptVars == <<script, log>>
sceneVars == <<progressRef, elapsedTime, matrix, shadow, data, trip>>
setupVars == <<isLoaded, isMounted, handLandmarker, setupPc, videoRef, listener,
               loadedCount>>
rafVars == <<rafPending, idPending>>

NoIO == [kind |-> "none", emit |-> "none"]

\* ------------------------------------------------------------ the scene

\* Foliage.tsx and Ornaments.tsx compute in floating point. Here lengths are
\* in 1/1000 of a scene unit, progress, factors and sines in 1/1000, time
\* in ms and angles in mrad; every product is rounded to the nearest
\* 1/1000.
Unit == 1000

\* Math.PI, in mrad.
Pi == 3142

Abs(x) == IF x < 0 THEN -x ELSE x

\* a / b rounded to the nearest integer (b > 0).
RoundDiv(a, b) == (2 * a + b) \div (2 * b)

\* clamp(x, lo, hi)
Clamp(x, lo, hi) == IF x < lo THEN lo ELSE IF x > hi THEN hi ELSE x

\* sin(a): Bhaskara's rational approximation on each half period.
Sin(a) ==
    LET x == a % (2 * Pi)
        h == IF x < Pi THEN x ELSE x - Pi
        m == h * (Pi - h)
        v == (16 * m) \div ((5 * Pi * Pi - 4 * m) \div Unit)
    IN  IF x < Pi THEN v ELSE -v

\* cos(a)
Cos(a) == Sin(a + Pi \div 2)

\* THREE.MathUtils.lerp(x, y, t) = (1 - t) * x + t * y; t is not clamped.
MathLerp(x, y, t) == RoundDiv((Unit - t) * x + t * y, Unit)

\* Mutant of Lerp3: this += v * alpha.
Lerp3_Additive(p, v, alpha) == [k \in 1..3 |-> p[k] + RoundDiv(v[k] * alpha, Unit)]

\* Vector3.lerp(v, alpha): this += (v - this) * alpha; alpha is not clamped.
Lerp3(p, v, alpha) == [k \in 1..3 |-> p[k] + RoundDiv((v[k] - p[k]) * alpha, Unit)]

\* ------------------------------------------------------------ Foliage

\* const target = mode === TreeMode.FORMED ? 1 : 0;
TargetOf(m) == IF m = "FORMED" THEN Unit ELSE 0

\* delta * 1.5, delta in ms.
ProgressFactor(delta) == (delta * 3) \div 2

\* Three points of a population of count = 3: rnd[i] and the scattered
\* positions are draws of Math.random(); the formed positions follow from i.
aRandom == <<0, 500, 999>>

aChaosPos == << <<10000, 5000, 0>>, <<-8000, 15000, 6000>>, <<0, -12000, -14000>> >>

Points == 1..Len(aRandom)

\* target[i * 3 ..]: yNorm = i / count, y = yNorm * 12, radius 5 * (1 - yNorm),
\* angle = 2 * PI * goldenRatio * i (10166 mrad per point); i counts from 0.
aTargetPos(pt) ==
    LET i == pt - 1
        yNorm == (i * Unit) \div Len(aRandom)
        currentRadius == 5 * (Unit - yNorm)
        angle == 10166 * i
    IN  << RoundDiv(Cos(angle) * currentRadius, Unit), 12 * yNorm,
           RoundDiv(Sin(angle) * currentRadius, Unit) >>

\* Mutant of cubicInOut: no easing.
cubicInOut_Linear(t) == t

\* float cubicInOut(float t)
cubicInOut(t) ==
    IF t < 500
    THEN RoundDiv(4 * t * t * t, Unit * Unit)
    ELSE Unit - RoundDiv((2 * Unit - 2 * t) * (2 * Unit - 2 * t) * (2 * Unit - 2 * t),
                         2 * Unit * Unit)

\* Mutant of LocalProgress: the group progress is not stretched by 1.2.
LocalProgress_NoHeadroom(uProgress, rnd) ==
    Clamp(RoundDiv(10 * uProgress - 2 * rnd, 10), 0, Unit)

\* float localProgress = clamp(uProgress * 1.2 - aRandom * 0.2, 0.0, 1.0);
LocalProgress(uProgress, rnd) ==
    Clamp(RoundDiv(12 * uProgress - 2 * rnd, 10), 0, Unit)

\* float easedProgress = cubicInOut(localProgress);
EasedProgress(pt, uProgress) == cubicInOut(LocalProgress(uProgress, aRandom[pt]))

\* mix(x, y, a) = x * (1 - a) + y * a
Mix3(x, y, a) == [k \in 1..3 |-> RoundDiv(x[k] * (Unit - a) + y[k] * a, Unit)]

\* vec3 newPos = mix(aChaosPos, aTargetPos, easedProgress);
BlendPos(pt, uProgress) ==
    Mix3(aChaosPos[pt], aTargetPos(pt), EasedProgress(pt, uProgress))

\* if (easedProgress > 0.9) { newPos.x += sin(uTime * 2.0 + newPos.y) * 0.05;
\*                            newPos.z += cos(uTime * 1.5 + newPos.y) * 0.05; }
NewPos(pt, uProgress, uTime) ==
    LET newPos == BlendPos(pt, uProgress)
    IN  IF EasedProgress(pt, uProgress) > 900
        THEN << newPos[1] + RoundDiv(Sin(2 * uTime + newPos[2]) * 50, Unit),
                newPos[2],
                newPos[3] + RoundDiv(Cos((3 * uTime) \div 2 + newPos[2]) * 50, Unit) >>
        ELSE newPos

\* ------------------------------------------------------------ Ornaments

\* Four instances the layout loop can generate, one of each type: chaosPos
\* on the shell of radius 15..30 around (0, 5, 0), targetPos on the cone,
\* scale and speed in their ranges.
Instances ==
    << [type |-> "ball", chaosPos |-> <<20000, 5000, 0>>,
        targetPos |-> <<3625, 3250, 0>>, scale |-> 350, speed |-> 750],
       [type |-> "gift", chaosPos |-> <<0, 25000, 0>>,
        targetPos |-> <<0, 500, 4750>>, scale |-> 300, speed |-> 625],
       [type |-> "light", chaosPos |-> <<0, 5000, -18000>>,
        targetPos |-> <<-2250, 6000, 0>>, scale |-> 150, speed |-> 500],
       [type |-> "shell", chaosPos |-> <<-15000, 5000, 0>>,
        targetPos |-> <<1500, 8750, 0>>, scale |-> 400, speed |-> 1500] >>

Ids == 1..Len(Instances)

\* const dest = isFormed ? d.targetPos : d.chaosPos;
Dest(d, m) == IF m = "FORMED" THEN d.targetPos ELSE d.chaosPos

\* delta * d.speed * 2.0
OrnamentFactor(d, delta) == (delta * d.speed * 2) \div Unit

\* dummy.position.distanceTo(d.targetPos) < 0.2
NearTarget(p, d) ==
    /\ \A k \in 1..3 : Abs(p[k] - d.targetPos[k]) < 200
    /\ (p[1] - d.targetPos[1]) * (p[1] - d.targetPos[1])
         + (p[2] - d.targetPos[2]) * (p[2] - d.targetPos[2])
         + (p[3] - d.targetPos[3]) * (p[3] - d.targetPos[3]) < 200 * 200

\* Math.sin(time * 2 + d.chaosPos.x) * 0.005 when formed and near the target.
Jitter(p, d, m, time) ==
    IF m = "FORMED" /\ NearTarget(p, d)
    THEN RoundDiv(Sin(2 * time + d.chaosPos[1]) * 5, Unit)
    ELSE 0

\* gift and shell: rotation.x += delta * 0.5; rotation.y += delta * 0.3. The
\* other types are turned by lookAt towards the axis, which follows from
\* their position.
Rotation(rot, d, delta) ==
    IF d.type \in {"gift", "shell"}
    THEN <<rot[1] + delta \div 2, rot[2] + (3 * delta) \div 10>>
    ELSE rot

\* dummy.scale: shell flattened, light pulsing with
\* 1 + Math.sin(time * 5 + d.chaosPos.y) * 0.3.
Scale(d, time) ==
    LET s == IF d.type = "shell"
             THEN <<d.scale, d.scale \div 5, (6 * d.scale) \div 5>>
             ELSE <<d.scale, d.scale, d.scale>>
        pulse == Unit + RoundDiv(Sin(5 * time + d.chaosPos[2]) * 3, 10)
    IN  IF d.type = "light"
        THEN [k \in 1..3 |-> RoundDiv(s[k] * pulse, Unit)]
        ELSE s

\* Math.random() draws that decide the type, around the thresholds.
Rnds == {0, 500, 501, 750, 751, 900, 901, 999}

\* let type = 'ball'; if (rnd > 0.5 && rnd <= 0.75) type = 'shell';
\* else if (rnd > 0.75 && rnd <= 0.9) type = 'gift'; else if (rnd > 0.9) ...
TypeOf(rnd) ==
    IF rnd > 500 /\ rnd <= 750 THEN "shell"
    ELSE IF rnd > 750 /\ rnd <= 900 THEN "gift"
    ELSE IF rnd > 900 THEN "light"
    ELSE "ball"

\* Mutant of ListOf: lights are pushed to the list of balls.
ListOf_LightsAsBalls(type) ==
    IF type = "ball" \/ type = "light" THEN "balls"
    ELSE IF type = "gift" THEN "gifts"
    ELSE "shells"

\* if (type === 'ball') _balls.push(data); else if (type === 'gift') ...
ListOf(type) ==
    IF type = "ball" THEN "balls"
    ELSE IF type = "gift" THEN "gifts"
    ELSE IF type = "light" THEN "lights"
    ELSE "shells"

\* const data: InstanceData = {...} of iteration i with the type drawn as
\* rnd; the other draws are those of the instance of that type above. index
\* is history: the iteration that generated the element.
Generated(i, rnd) ==
    LET d == CHOOSE x \in {Instances[k] : k \in Ids} : x.type = TypeOf(rnd)
    IN  [index |-> i, type |-> d.type, chaosPos |-> d.chaosPos,
         targetPos |-> d.targetPos, scale |-> d.scale, speed |-> d.speed]

\* The body of the layout loop after the draws: one push.
Push(dt, d) == [dt EXCEPT ![ListOf(d.type)] = Append(@, d), !.i = @ + 1]

\* The instances in the order the meshes are updated.
AllData(dt) == dt.balls \o dt.gifts \o dt.lights \o dt.shells

\* Foliage useMemo: { chaosPositions, targetPositions, randoms }.
FoliageData ==
    [chaosPositions |-> aChaosPos,
     targetPositions |-> [pt \in Points |-> aTargetPos(pt)],
     randoms |-> aRandom]

\* The useMemo results for count = 4 with one draw of each type: the
\* population whose instances are Instances.
BuiltData ==
    [pc |-> "built", count |-> 4, i |-> 4,
     balls |-> <<Generated(0, 0)>>, gifts |-> <<Generated(1, 751)>>,
     lights |-> <<Generated(2, 901)>>, shells |-> <<Generated(3, 501)>>,
     foliage |-> FoliageData]

\* Mutant of DataAfterUpdate: the lerp is applied to dest (d.targetPos when
\* formed) in place of dummy.position.
DataAfterUpdate_LerpsDest(d, m, delta) ==
    [d EXCEPT !.targetPos = Lerp3(@, m.position, OrnamentFactor(d, delta))]

\* updateMesh, the InstanceData d after the body has run for it: lerp,
\* distanceTo and lookAt write to dummy alone, and no field of d is assigned.
DataAfterUpdate(d, m, delta) == d

NoTrip == [stage |-> "none"]

\* The scene after its first render: progressRef = useRef(0), the uniforms
\* 0, every instance matrix the identity.
InitScene ==
    /\ progressRef = 0
    /\ elapsedTime = 0
    /\ matrix = [i \in Ids |-> [position |-> <<0, 0, 0>>, rotation |-> <<0, 0>>,
                                scale |-> <<Unit, Unit, Unit>>]]
    /\ shadow = [frames |-> 0, plain |-> [i \in Ids |-> <<0, 0, 0>>],
                 jitter |-> [i \in Ids |-> 0]]
    /\ data = BuiltData
    /\ trip = NoTrip

\* ------------------------------------------------------------ the owner

\* The owner of Mode: onModeChange(m) and a direct set both store m.
OwnerSetMode(cur, m) == m

\* History only. runFrom tells how the current run of frames began: "none"
\* (no run: both counters 0), the Mode it began from with lastModeRef equal
\* to it, or "unsettled" (lastModeRef not yet refreshed). A direct set of
\* Mode during the run turns it into "overridden", or "overriddenAboveT"
\* when a run counter already exceeded the threshold and lastModeRef had
\* been refreshed to the Mode the run committed.
RunStart == IF lastModeRef = mode THEN mode ELSE "unsettled"

AboveT == openFrames > CONFIDENCE_THRESHOLD \/ closedFrames > CONFIDENCE_THRESHOLD

\* ------------------------------------------------------------ classifier

\* if (extendedFingers >= 4) ... else if (extendedFingers <= 1) ...
Classify(ext) ==
    IF ext >= 4 THEN "open" ELSE IF ext <= 1 THEN "closed" ELSE "ambiguous"

\* Mutant of CountersAfter: the other counter is not reset.
CountersAfter_NoReset(kind, o, c) ==
    CASE kind = "open"   -> <<o + 1, c>>
      [] kind = "closed" -> <<o, c + 1>>
      [] OTHER           -> <<o, c>>

\* Mutant of CountersAfter: an ambiguous frame restarts both runs.
CountersAfter_AmbiguousResets(kind, o, c) ==
    CASE kind = "open"   -> <<o + 1, 0>>
      [] kind = "closed" -> <<0, c + 1>>
      [] OTHER           -> <<0, 0>>

\* openFrames.current++; closedFrames.current = 0  /  the mirror image.
CountersAfter(kind, o, c) ==
    CASE kind = "open"   -> <<o + 1, 0>>
      [] kind = "closed" -> <<0, c + 1>>
      [] OTHER           -> <<o, c>>

\* Mutant of OpenCommit: >= in place of >.
OpenCommit_AtThreshold(o, last) == o >= CONFIDENCE_THRESHOLD /\ last # "CHAOS"

\* Mutant of ClosedCommit: >= in place of >.
ClosedCommit_AtThreshold(c, last) == c >= CONFIDENCE_THRESHOLD /\ last # "FORMED"

\* Mutant of ClosedCommit: compares against the wrong Mode.
ClosedCommit_WrongMode(c, last) == c > CONFIDENCE_THRESHOLD /\ last # "CHAOS"

\* openFrames.current > CONFIDENCE_THRESHOLD && lastModeRef.current !== CHAOS
OpenCommit(o, last) == o > CONFIDENCE_THRESHOLD /\ last # "CHAOS"

\* closedFrames.current > CONFIDENCE_THRESHOLD && lastModeRef.current !== FORMED
ClosedCommit(c, last) == c > CONFIDENCE_THRESHOLD /\ last # "FORMED"

\* Mutant of Emission: the commit ignores the run counters' threshold.
Emission_NoThreshold(kind, o, c, last) ==
    CASE kind = "open" /\ last # "CHAOS"    -> "CHAOS"
      [] kind = "closed" /\ last # "FORMED" -> "FORMED"
      [] OTHER                              -> "none"

\* The onModeChange call a classified frame makes ("none": no call).
Emission(kind, o, c, last) ==
    CASE kind = "open" /\ OpenCommit(o, last)     -> "CHAOS"
      [] kind = "closed" /\ ClosedCommit(c, last) -> "FORMED"
      [] OTHER                                    -> "none"

\* setGestureStatus of a classified frame.
StatusAfter(kind, old) ==
    CASE kind = "open"   -> "OPEN: Unleash"
      [] kind = "closed" -> "CLOSED: Restore"
      [] OTHER           -> old

\* Mutant of NoHandCounters: only the open run is reset.
NoHandCounters_OpenOnly == <<0, closedFrames>>

\* openFrames.current = 0; closedFrames.current = 0
NoHandCounters == <<0, 0>>

\* detectGesture(landmarks)
detectGesture(landmarks) ==
    \E palm \in {PalmCenter(landmarks)}, extendedFingers \in {ExtendedFingers(landmarks)} :
    LET kind == Classify(extendedFingers)
        cnt  == CountersAfter(kind, openFrames, closedFrames)
        emit == Emission(kind, cnt[1], cnt[2], lastModeRef)
        fresh == \/ kind = "open" /\ openFrames = 0
                 \/ kind = "closed" /\ closedFrames = 0
        flip == IF emit # "none" /\ OwnerSetMode(mode, emit) # mode THEN 1 ELSE 0
    IN  /\ handPos' = [x |-> palm[1], y |-> palm[2], detected |-> TRUE]
        /\ openFrames' = cnt[1]
        /\ closedFrames' = cnt[2]
        /\ gestureStatus' = StatusAfter(kind, gestureStatus)
        /\ mode' = IF emit = "none" THEN mode ELSE OwnerSetMode(mode, emit)
        /\ io' = [kind |-> kind, emit |-> emit]
        /\ runFrom' = IF fresh THEN RunStart ELSE runFrom
        /\ runEmits' = (IF fresh THEN 0 ELSE runEmits) + (IF emit = "none" THEN 0 ELSE 1)
        /\ runFlips' = (IF fresh THEN 0 ELSE runFlips) + flip

\* Mutant of handleNoHand: onTwoHandsDetected(false) is not called.
handleNoHand_KeepsTwoHands ==
    /\ gestureStatus' = "No hand detected"
    /\ openFrames' = NoHandCounters[1]
    /\ closedFrames' = NoHandCounters[2]
    /\ handPos' = [x |-> 50, y |-> 50, detected |-> FALSE]
    /\ twoHands' = twoHands
    /\ io' = [kind |-> "nohand", emit |-> "none"]
    /\ runFrom' = "none"
    /\ runEmits' = 0
    /\ runFlips' = 0
    /\ UNCHANGED mode

\* handleNoHand()
handleNoHand ==
    /\ gestureStatus' = "No hand detected"
    /\ openFrames' = NoHandCounters[1]
    /\ closedFrames' = NoHandCounters[2]
    /\ handPos' = [x |-> 50, y |-> 50, detected |-> FALSE]
    /\ twoHands' = FALSE
    /\ io' = [kind |-> "nohand", emit |-> "none"]
    /\ runFrom' = "none"
    /\ runEmits' = 0
    /\ runFlips' = 0
    /\ UNCHANGED mode

\* videoRef.current.videoWidth: known once the first frame has loaded.
VideoWidth == IF loadedCount > 0 THEN 320 ELSE 0

\* Mutant of Alive: the liveness flag is not checked.
Alive_NoMountCheck == handLandmarker # "null" /\ videoRef # "null"

\* if (!handLandmarker || !videoRef.current || !isMounted) return;
Alive == handLandmarker # "null" /\ videoRef # "null" /\ isMounted

\* Mutant of ClassifiedHand: the last hand of the result.
ClassifiedHand_Last(landmarks) == landmarks[Len(landmarks)]

\* result.landmarks[0], the hand handed to detectGesture.
ClassifiedHand(landmarks) == landmarks[1]

\* The frames Spec feeds: none that pushes a run counter past MaxRun.
FrameAllowed(det) ==
    \/ det.throws
    \/ Len(det.landmarks) = 0
    \/ /\ Len(det.landmarks) > 0
       /\ \E kind \in {Classify(ExtendedFingers(ClassifiedHand(det.landmarks)))} :
              /\ kind = "open" => openFrames < MaxRun
              /\ kind = "closed" => closedFrames < MaxRun

\* The frame callbacks are told apart only by whether animationFrameId names
\* them: "listener" is a call from the loadeddata event, "last" the callback
\* animationFrameId names, "other" any other pending callback.
Callers == {"listener", "last", "other"}

\* The pending callbacks once caller has run and requested no new frame.
Consumed(caller) ==
    /\ rafPending' = IF caller = "listener" THEN rafPending ELSE rafPending - 1
    /\ idPending' = IF caller = "last" THEN FALSE ELSE idPending

\* animationFrameId = requestAnimationFrame(predictWebcam)
Requested(caller) ==
    /\ rafPending' = IF caller = "listener" THEN rafPending + 1 ELSE rafPending
    /\ idPending' = TRUE

\* predictWebcam(), called by caller. dets: what detectForVideo may do in
\* this call.
predictWebcam(caller, dets, width) ==
    IF ~Alive
    THEN /\ io' = [kind |-> "skip", emit |-> "none"]
         /\ Consumed(caller)
         /\ UNCHANGED <<mode, classifierVars, historyVars>>
    ELSE IF width > 0
    THEN \E det \in dets :
            IF det.throws
            THEN /\ io' = [kind |-> "throw", emit |-> "none"]
                 /\ Consumed(caller)
                 /\ UNCHANGED <<mode, classifierVars, historyVars>>
            ELSE /\ IF Len(det.landmarks) > 0
                    THEN /\ twoHands' = (Len(det.landmarks) >= 2)
                         /\ detectGesture(ClassifiedHand(det.landmarks))
                    ELSE handleNoHand
                 /\ Requested(caller)
    ELSE /\ io' = [kind |-> "skip", emit |-> "none"]
         /\ Requested(caller)
         /\ UNCHANGED <<mode, classifierVars, historyVars>>

\* ------------------------------------------------------------ setup

\* await FilesetResolver.forVisionTasks(...) resolves.
VisionResolved ==
    /\ setupPc = "awaitVision"
    /\ setupPc' = "awaitCreate"
    /\ io' = NoIO
    /\ UNCHANGED <<mode, lastModeRef, classifierVars, historyVars, scriptVars, sceneVars,
                   isLoaded, isMounted, handLandmarker, videoRef, listener,
                   loadedCount, rafVars>>

\* await HandLandmarker.createFromOptions(...) resolves; startWebcam() runs
\* up to its own await when the effect is still live.
CreateResolved(hasGetUserMedia) ==
    /\ setupPc = "awaitCreate"
    /\ handLandmarker' = "open"
    /\ setupPc' = IF isMounted /\ hasGetUserMedia THEN "awaitMedia" ELSE "done"
    /\ io' = NoIO
    /\ UNCHANGED <<mode, lastModeRef, classifierVars, historyVars, scriptVars, sceneVars,
                   isLoaded, isMounted, videoRef, listener, loadedCount, rafVars>>

\* Either await of setupMediaPipe rejects: the catch block.
SetupRejected ==
    /\ setupPc \in {"awaitVision", "awaitCreate"}
    /\ setupPc' = "failed"
    /\ gestureStatus' = IF isMounted THEN "Gesture control unavailable"
                        ELSE gestureStatus
    /\ io' = NoIO
    /\ UNCHANGED <<mode, lastModeRef, openFrames, closedFrames, handPos, twoHands,
                   historyVars, scriptVars, sceneVars, isLoaded, isMounted, handLandmarker,
                   videoRef, listener, loadedCount, rafVars>>

\* await getUserMedia(...) resolves: the stream is attached and predictWebcam
\* registered for loadeddata, when the video element and the effect are live.
MediaResolved ==
    /\ setupPc = "awaitMedia"
    /\ setupPc' = "done"
    /\ IF videoRef # "null" /\ isMounted
       THEN /\ listener' = TRUE
            /\ isLoaded' = TRUE
            /\ gestureStatus' = "Waiting for hand..."
       ELSE UNCHANGED <<listener, isLoaded, gestureStatus>>
    /\ io' = NoIO
    /\ UNCHANGED <<mode, lastModeRef, openFrames, closedFrames, handPos, twoHands,
                   historyVars, scriptVars, sceneVars, isMounted, handLandmarker, videoRef,
                   loadedCount, rafVars>>

\* Mutant of MediaRejected: the catch block sets no status.
MediaRejected_NoStatus ==
    /\ setupPc = "awaitMedia"
    /\ setupPc' = "denied"
    /\ io' = NoIO
    /\ UNCHANGED <<mode, lastModeRef, classifierVars, historyVars, scriptVars, sceneVars,
                   isLoaded, isMounted, handLandmarker, videoRef, listener,
                   loadedCount, rafVars>>

\* await getUserMedia(...) rejects: startWebcam's catch block.
MediaRejected ==
    /\ setupPc = "awaitMedia"
    /\ setupPc' = "denied"
    /\ gestureStatus' = IF isMounted THEN "Webcam Permission Denied"
                        ELSE gestureStatus
    /\ io' = NoIO
    /\ UNCHANGED <<mode, lastModeRef, openFrames, closedFrames, handPos, twoHands,
                   historyVars, scriptVars, sceneVars, isLoaded, isMounted, handLandmarker,
                   videoRef, listener, loadedCount, rafVars>>

\* ------------------------------------------------------------ frames

\* The video element dispatches loadeddata: the registered predictWebcam runs.
LoadedDataWith(dets) ==
    /\ listener
    /\ loadedCount < MaxLoadedData
    /\ loadedCount' = loadedCount + 1
    /\ predictWebcam("listener", dets, 320)
    /\ UNCHANGED <<lastModeRef, isLoaded, isMounted, handLandmarker,
                   setupPc, videoRef, listener>>

LoadedData ==
    /\ LoadedDataWith({d \in DetectResults : FrameAllowed(d)})
    /\ UNCHANGED <<scriptVars, sceneVars>>

\* The browser runs the frame callback requested as c.
AnimationFrameWith(c, dets) ==
    /\ c = "last" => idPending
    /\ c = "other" => rafPending > (IF idPending THEN 1 ELSE 0)
    /\ predictWebcam(c, dets, VideoWidth)
    /\ UNCHANGED <<lastModeRef, setupVars>>

AnimationFrame(c) ==
    /\ AnimationFrameWith(c, {d \in DetectResults : FrameAllowed(d)})
    /\ UNCHANGED <<scriptVars, sceneVars>>

\* ------------------------------------------------------------ effects

\* useEffect(() => { lastModeRef.current = currentMode; }, [currentMode]),
\* run by React some time after a render in which currentMode changed.
SyncLastMode ==
    /\ videoRef # "null"
    /\ lastModeRef # mode
    /\ lastModeRef' = mode
    /\ io' = NoIO
    /\ UNCHANGED <<mode, classifierVars, historyVars, scriptVars, sceneVars, setupVars,
                   rafVars>>

\* The owner sets Mode directly (a UI control bypassing gestures).
Override(m) ==
    /\ m # mode
    /\ mode' = OwnerSetMode(mode, m)
    /\ runFrom' = IF runFrom = "none" THEN "none"
                  ELSE IF runFrom = "overriddenAboveT" \/ (AboveT /\ lastModeRef = mode)
                       THEN "overriddenAboveT"
                  ELSE "overridden"
    /\ io' = NoIO
    /\ UNCHANGED <<lastModeRef, classifierVars, runEmits, runFlips, scriptVars, sceneVars,
                   setupVars, rafVars>>

\* Unmount, commit phase: React detaches videoRef before the effect cleanup.
DetachRef ==
    /\ isMounted
    /\ videoRef # "null"
    /\ videoRef' = "null"
    /\ io' = NoIO
    /\ UNCHANGED <<mode, lastModeRef, classifierVars, historyVars, scriptVars, sceneVars,
                   isLoaded, isMounted, handLandmarker, setupPc, listener,
                   loadedCount, rafVars>>

\* return () => { isMounted = false; cancelAnimationFrame(animationFrameId);
\*                handLandmarker?.close(); }
Cleanup ==
    /\ isMounted
    /\ isMounted' = FALSE
    /\ rafPending' = IF idPending THEN rafPending - 1 ELSE rafPending
    /\ idPending' = FALSE
    /\ handLandmarker' = IF handLandmarker = "null" THEN "null" ELSE "closed"
    /\ io' = NoIO
    /\ UNCHANGED <<mode, lastModeRef, classifierVars, historyVars, scriptVars, sceneVars,
                   isLoaded, setupPc, videoRef, listener, loadedCount>>

\* ------------------------------------------------------------ Spec

\* The component after its first render and the first run of its effects:
\* setupMediaPipe() is suspended at its first await.
Init ==
    /\ mode \in Modes
    /\ lastModeRef = mode
    /\ openFrames = 0
    /\ closedFrames = 0
    /\ gestureStatus = "Initializing..."
    /\ handPos = [x |-> 50, y |-> 50, detected |-> FALSE]
    /\ twoHands = FALSE
    /\ isLoaded = FALSE
    /\ isMounted = TRUE
    /\ handLandmarker = "null"
    /\ setupPc = "awaitVision"
    /\ videoRef = "video"
    /\ listener = FALSE
    /\ loadedCount = 0
    /\ rafPending = 0
    /\ idPending = FALSE
    /\ io = NoIO
    /\ runFrom = "none"
    /\ runEmits = 0
    /\ runFlips = 0
    /\ script = <<>>
    /\ log = <<>>
    /\ InitScene

Next ==
    \/ VisionResolved
    \/ \E has \in BOOLEAN : CreateResolved(has)
    \/ SetupRejected
    \/ MediaResolved
    \/ MediaRejected
    \/ LoadedData
    \/ \E c \in {"last", "other"} : AnimationFrame(c)
    \/ SyncLastMode
    \/ \E m \in Modes : Override(m)
    \/ DetachRef
    \/ Cleanup

Spec == Init /\ [][Next]_vars

\* ------------------------------------------------------------ SpecTeardown

\* What the runtime does sooner or later: a pending await settles, a
\* requested frame callback runs, a pending effect runs.
Settles ==
    \/ VisionResolved
    \/ \E has \in BOOLEAN : CreateResolved(has)
    \/ SetupRejected
    \/ MediaResolved
    \/ MediaRejected
    \/ \E c \in {"last", "other"} : AnimationFrame(c)
    \/ SyncLastMode

SpecTeardown == Init /\ [][Next]_vars /\ WF_vars(Settles)

\* ------------------------------------------------------------ SpecScript

\* The two frame sequences of extendedFingerCount the specification gives.
Script7 == <<4, 4, 4, 4, 4, 4>>
Script8 == <<0, 0, 0, 3, 0, 0, 0, 0, 0>>

\* Bound on the length of the other scripts.
MaxScript == 7

\* The scripts fed: the two above and every sequence of closed (0),
\* ambiguous (3) and open (4) frames of length MaxScript.
Scripts == {Script7, Script8} \cup [1..MaxScript -> {0, 3, 4}]

\* detectForVideo returns one hand with n fingers extended.
OneHand(n) ==
    {d \in DetectResults :
        /\ ~d.throws
        /\ Len(d.landmarks) = 1
        /\ ExtendedFingers(d.landmarks[1]) = n}

\* The component right after predictWebcam was registered for loadeddata,
\* with a script of frames to feed.
InitScript ==
    /\ mode \in Modes
    /\ lastModeRef = mode
    /\ openFrames = 0
    /\ closedFrames = 0
    /\ gestureStatus = "Waiting for hand..."
    /\ handPos = [x |-> 50, y |-> 50, detected |-> FALSE]
    /\ twoHands = FALSE
    /\ isLoaded = TRUE
    /\ isMounted = TRUE
    /\ handLandmarker = "open"
    /\ setupPc = "done"
    /\ videoRef = "video"
    /\ listener = TRUE
    /\ loadedCount = 0
    /\ rafPending = 0
    /\ idPending = FALSE
    /\ io = NoIO
    /\ runFrom = "none"
    /\ runEmits = 0
    /\ runFlips = 0
    /\ script \in Scripts
    /\ log = <<>>
    /\ InitScene

\* The record of one fed frame.
Logged(n, before) ==
    [ext |-> n, open |-> openFrames', closed |-> closedFrames',
     emit |-> io'.emit, before |-> before, after |-> mode']

\* The first frame arrives with loadeddata.
ScriptFirstFrame ==
    /\ script # <<>>
    /\ loadedCount = 0
    /\ LoadedDataWith(OneHand(Head(script)))
    /\ script' = Tail(script)
    /\ UNCHANGED sceneVars
    /\ log' = Append(log, Logged(Head(script), mode))

\* Every later frame arrives with the requested frame callback.
ScriptNextFrame ==
    /\ script # <<>>
    /\ loadedCount > 0
    /\ AnimationFrameWith("last", OneHand(Head(script)))
    /\ script' = Tail(script)
    /\ UNCHANGED sceneVars
    /\ log' = Append(log, Logged(Head(script), mode))

NextScript ==
    \/ ScriptFirstFrame
    \/ ScriptNextFrame
    \/ SyncLastMode

SpecScript == InitScript /\ [][NextScript]_vars

\* The extendedFingerCount values fed so far.
Fed == [i \in 1..Len(log) |-> log[i].ext]

IsPrefix(s, t) == Len(s) <= Len(t) /\ \A i \in 1..Len(s) : s[i] = t[i]

\* ------------------------------------------------------------ SpecFrames

\* The running component fed arbitrary detection results, the last result
\* fed kept in log.
InitFrames ==
    /\ mode \in Modes
    /\ lastModeRef = mode
    /\ openFrames = 0
    /\ closedFrames = 0
    /\ gestureStatus = "Waiting for hand..."
    /\ handPos = [x |-> 50, y |-> 50, detected |-> FALSE]
    /\ twoHands = FALSE
    /\ isLoaded = TRUE
    /\ isMounted = TRUE
    /\ handLandmarker = "open"
    /\ setupPc = "done"
    /\ videoRef = "video"
    /\ listener = TRUE
    /\ loadedCount = 0
    /\ rafPending = 0
    /\ idPending = FALSE
    /\ io = NoIO
    /\ runFrom = "none"
    /\ runEmits = 0
    /\ runFlips = 0
    /\ script = <<>>
    /\ log = <<>>
    /\ InitScene

\* loadeddata: predictWebcam runs and detectForVideo does det.
FeedLoadedData ==
    \E det \in {d \in DetectResults : FrameAllowed(d)} :
        /\ LoadedDataWith({det})
        /\ log' = <<det>>
        /\ UNCHANGED <<script, sceneVars>>

\* The frame callback requested as c runs and detectForVideo does det.
FeedAnimationFrame(c) ==
    \E det \in {d \in DetectResults : FrameAllowed(d)} :
        /\ AnimationFrameWith(c, {det})
        /\ log' = <<det>>
        /\ UNCHANGED <<script, sceneVars>>

NextFrames ==
    \/ FeedLoadedData
    \/ \E c \in {"last", "other"} : FeedAnimationFrame(c)
    \/ SyncLastMode

SpecFrames == InitFrames /\ [][NextFrames]_vars

\* The last step processed a detection result (detectForVideo returned).
Processed == log # <<>> /\ ~log[1].throws

\* The hands of the result the last step processed.
LastHands == log[1].landmarks

\* ------------------------------------------------------------ SpecHold

\* Script entries besides an extendedFingers count: a result without a hand,
\* and a detectForVideo call that throws.
NoHandFrame == -1
FailedFrame == -2

\* What detectForVideo does for script entry n.
FrameOf(n) ==
    IF n = FailedFrame THEN {[throws |-> TRUE, landmarks |-> <<>>]}
    ELSE IF n = NoHandFrame THEN {[throws |-> FALSE, landmarks |-> <<>>]}
    ELSE OneHand(n)

\* Bound on the length of the history that precedes the held gesture.
MaxHistory == 2

Histories ==
    UNION {[1..n -> {FailedFrame, NoHandFrame, 0, 3, 4}] : n \in 0..MaxHistory}

\* A clear gesture (fist: 0, open hand: 4) held for more than
\* CONFIDENCE_THRESHOLD consecutive frames.
Hold(g) == [i \in 1..(CONFIDENCE_THRESHOLD + 1) |-> g]

HoldScripts == {h \o Hold(g) : h \in Histories, g \in {0, 4}}

\* The running component with a history and then a held gesture in front of
\* the camera.
InitHold ==
    /\ mode \in Modes
    /\ lastModeRef = mode
    /\ openFrames = 0
    /\ closedFrames = 0
    /\ gestureStatus = "Waiting for hand..."
    /\ handPos = [x |-> 50, y |-> 50, detected |-> FALSE]
    /\ twoHands = FALSE
    /\ isLoaded = TRUE
    /\ isMounted = TRUE
    /\ handLandmarker = "open"
    /\ setupPc = "done"
    /\ videoRef = "video"
    /\ listener = TRUE
    /\ loadedCount = 0
    /\ rafPending = 0
    /\ idPending = FALSE
    /\ io = NoIO
    /\ runFrom = "none"
    /\ runEmits = 0
    /\ runFlips = 0
    /\ script \in HoldScripts
    /\ log = <<>>
    /\ InitScene

\* The first frame arrives with loadeddata.
HoldFirstFrame ==
    /\ script # <<>>
    /\ loadedCount = 0
    /\ LoadedDataWith(FrameOf(Head(script)))
    /\ script' = Tail(script)
    /\ UNCHANGED sceneVars
    /\ log' = Append(log, Logged(Head(script), mode))

\* Every later frame arrives with the frame callback predictWebcam requested.
HoldNextFrame ==
    /\ script # <<>>
    /\ loadedCount > 0
    /\ AnimationFrameWith("last", FrameOf(Head(script)))
    /\ script' = Tail(script)
    /\ UNCHANGED sceneVars
    /\ log' = Append(log, Logged(Head(script), mode))

NextHold ==
    \/ HoldFirstFrame
    \/ HoldNextFrame
    \/ SyncLastMode

\* The browser runs every requested callback and React every pending effect.
SpecHold == InitHold /\ [][NextHold]_vars /\ WF_vars(NextHold)

\* The gesture held at the end of the script, and the Mode it commits to.
HeldGesture == IF script # <<>> THEN script[Len(script)] ELSE log[Len(log)].ext

HeldCommit == IF HeldGesture = 4 THEN "CHAOS" ELSE "FORMED"

\* ------------------------------------------------------------ SpecMorph

\* Everything of the gesture controller but Mode.
controllerVars == <<lastModeRef, classifierVars, historyVars, scriptVars, setupVars,
                    rafVars, io>>

\* Frame durations (ms): a 60 Hz frame, a slow frame, and a frame after a
\* stall.
Deltas == {16, 600, 800}

\* Bound on the number of rendered frames.
MaxFrames == 5

\* Foliage, useFrame: progressRef.current = lerp(progressRef.current, target,
\* delta * 1.5); the uniforms take elapsedTime and progressRef.current.
FoliageFrame(delta) ==
    progressRef' = MathLerp(progressRef, TargetOf(mode), ProgressFactor(delta))

\* dummy.position.lerp(dest, delta * d.speed * 2.0)
Lerped(pos, d, delta) == Lerp3(pos, Dest(d, mode), OrnamentFactor(d, delta))

\* Ornaments, updateMesh, one instance: decompose, lerp, jitter, rotation,
\* scale, setMatrixAt.
UpdateInstance(m, d, delta, time) ==
    LET lerped == Lerped(m.position, d, delta)
    IN  [position |-> <<lerped[1], lerped[2] + Jitter(lerped, d, mode, time), lerped[3]>>,
         rotation |-> Rotation(m.rotation, d, delta),
         scale |-> Scale(d, time)]

\* Ornaments, useFrame: updateMesh for every instance of every mesh.
OrnamentsFrame(delta, time) ==
    matrix' = [i \in DOMAIN matrix |->
                  UpdateInstance(matrix[i], AllData(data)[i], delta, time)]

\* What the two useFrame callbacks leave of the useMemo results: the
\* attribute arrays are not written, and each InstanceData is as updateMesh
\* leaves it.
DataAfterFrame(dt, delta) ==
    LET after(list, offset) ==
            [k \in 1..Len(list) |-> DataAfterUpdate(list[k], matrix[offset + k], delta)]
    IN  [dt EXCEPT !.balls = after(dt.balls, 0),
                   !.gifts = after(dt.gifts, Len(dt.balls)),
                   !.lights = after(dt.lights, Len(dt.balls) + Len(dt.gifts)),
                   !.shells = after(dt.shells,
                                    Len(dt.balls) + Len(dt.gifts) + Len(dt.lights))]

\* History: the jitter each instance received in this frame, and the
\* positions of the same run with the jitter left out of every frame.
ShadowFrame(delta, time) ==
    shadow' = [frames |-> shadow.frames + 1,
               plain |-> [i \in DOMAIN matrix |->
                   Lerped(shadow.plain[i], AllData(data)[i], delta)],
               jitter |-> [i \in DOMAIN matrix |->
                   Jitter(Lerped(matrix[i].position, AllData(data)[i], delta),
                          AllData(data)[i], mode, time)]]

\* The renderer runs both useFrame callbacks with the same clock.
FrameStep(delta) ==
    /\ elapsedTime' = elapsedTime + delta
    /\ FoliageFrame(delta)
    /\ OrnamentsFrame(delta, elapsedTime + delta)
    /\ ShadowFrame(delta, elapsedTime + delta)
    /\ data' = DataAfterFrame(data, delta)
    /\ UNCHANGED <<mode, controllerVars>>

RenderFrame(delta) ==
    /\ shadow.frames < MaxFrames
    /\ FrameStep(delta)
    /\ UNCHANGED trip

\* The owner changes Mode between two frames.
SetMode(m) ==
    /\ m # mode
    /\ mode' = OwnerSetMode(mode, m)
    /\ UNCHANGED <<sceneVars, controllerVars>>

NextMorph ==
    \/ \E delta \in Deltas : RenderFrame(delta)
    \/ \E m \in Modes : SetMode(m)

SpecMorph == Init /\ [][NextMorph]_vars

\* The tolerance of the convergence claims: 0.01.
Epsilon == Unit \div 100

\* The step is a rendered frame.
IsFrame == elapsedTime' # elapsedTime

\* ------------------------------------------------------------ SpecRoundTrip

\* Frame durations of the round trips, and the bound on the dwell (frames).
TripDeltas == {16, 100, 400, 600, 800}

MaxDwell == 4

Other(m) == IF m = "FORMED" THEN "CHAOS" ELSE "FORMED"

\* A converged layout in Mode A = trip.home: progress at its target and every
\* instance at its destination. The Mode will be toggled to B, held for
\* trip.dwell frames of trip.delta, toggled back and held as long again.
InitTrip ==
    /\ mode \in Modes
    /\ lastModeRef = mode
    /\ openFrames = 0
    /\ closedFrames = 0
    /\ gestureStatus = "Initializing..."
    /\ handPos = [x |-> 50, y |-> 50, detected |-> FALSE]
    /\ twoHands = FALSE
    /\ isLoaded = FALSE
    /\ isMounted = TRUE
    /\ handLandmarker = "null"
    /\ setupPc = "awaitVision"
    /\ videoRef = "video"
    /\ listener = FALSE
    /\ loadedCount = 0
    /\ rafPending = 0
    /\ idPending = FALSE
    /\ io = NoIO
    /\ runFrom = "none"
    /\ runEmits = 0
    /\ runFlips = 0
    /\ script = <<>>
    /\ log = <<>>
    /\ progressRef = TargetOf(mode)
    /\ elapsedTime = 0
    /\ matrix = [i \in Ids |-> [position |-> Dest(Instances[i], mode),
                                rotation |-> <<0, 0>>,
                                scale |-> Scale(Instances[i], 0)]]
    /\ shadow = [frames |-> 0, plain |-> [i \in Ids |-> Dest(Instances[i], mode)],
                 jitter |-> [i \in Ids |-> 0]]
    /\ data = BuiltData
    /\ \E delta \in TripDeltas, dwell \in 1..MaxDwell :
           trip = [stage |-> "home", delta |-> delta, dwell |-> dwell, left |-> 0,
                   home |-> mode, origin |-> TargetOf(mode),
                   converged |-> FALSE, settled |-> [i \in Ids |-> FALSE]]

\* The owner toggles Mode to B.
TripLeave ==
    /\ trip.stage = "home"
    /\ mode' = OwnerSetMode(mode, Other(trip.home))
    /\ trip' = [trip EXCEPT !.stage = "out", !.left = trip.dwell]
    /\ UNCHANGED <<progressRef, elapsedTime, matrix, shadow, data, controllerVars>>

\* A rendered frame of the dwell in B or of the return to A.
TripFrame ==
    /\ trip.stage \in {"out", "back"}
    /\ trip.left > 0
    /\ FrameStep(trip.delta)
    /\ trip' = [trip EXCEPT !.left = @ - 1]

\* The owner toggles Mode back to A; history: what had converged in B.
TripReturn ==
    /\ trip.stage = "out"
    /\ trip.left = 0
    /\ mode' = OwnerSetMode(mode, trip.home)
    /\ trip' = [trip EXCEPT
                  !.stage = "back", !.left = trip.dwell,
                  !.converged = Abs(progressRef - TargetOf(mode)) <= Epsilon,
                  !.settled = [i \in Ids |->
                      \A k \in 1..3 :
                          Abs(matrix[i].position[k] - Dest(Instances[i], mode)[k])
                              <= Epsilon]]
    /\ UNCHANGED <<progressRef, elapsedTime, matrix, shadow, data, controllerVars>>

NextTrip ==
    \/ TripLeave
    \/ TripFrame
    \/ TripReturn

SpecRoundTrip == InitTrip /\ [][NextTrip]_vars

\* The round trip is complete.
TripDone == trip.stage = "back" /\ trip.left = 0

\* ------------------------------------------------------------ SpecBuild

\* Bounds on the population size (the count prop) and on the frames rendered
\* once the population is built.
MaxCount == 3

MaxBuildFrames == 2

Lists == {"balls", "gifts", "lights", "shells"}

\* Ornaments is rendered for the first time with count = N: useMemo has
\* entered the layout loop, the four local lists are empty and no mesh exists.
InitBuild ==
    /\ mode \in Modes
    /\ lastModeRef = mode
    /\ openFrames = 0
    /\ closedFrames = 0
    /\ gestureStatus = "Initializing..."
    /\ handPos = [x |-> 50, y |-> 50, detected |-> FALSE]
    /\ twoHands = FALSE
    /\ isLoaded = FALSE
    /\ isMounted = TRUE
    /\ handLandmarker = "null"
    /\ setupPc = "awaitVision"
    /\ videoRef = "video"
    /\ listener = FALSE
    /\ loadedCount = 0
    /\ rafPending = 0
    /\ idPending = FALSE
    /\ io = NoIO
    /\ runFrom = "none"
    /\ runEmits = 0
    /\ runFlips = 0
    /\ script = <<>>
    /\ log = <<>>
    /\ progressRef = 0
    /\ elapsedTime = 0
    /\ matrix = <<>>
    /\ shadow = [frames |-> 0, plain |-> <<>>, jitter |-> <<>>]
    /\ trip = NoTrip
    /\ \E N \in 0..MaxCount :
           data = [pc |-> "loop", count |-> N, i |-> 0,
                   balls |-> <<>>, gifts |-> <<>>, lights |-> <<>>, shells |-> <<>>,
                   foliage |-> FoliageData]

\* for (let i = 0; i < count; i++) { ... }: one iteration, rnd the draw that
\* decides the type.
Generate(rnd) ==
    /\ data.pc = "loop"
    /\ data.i < data.count
    /\ data' = Push(data, Generated(data.i, rnd))
    /\ UNCHANGED <<mode, progressRef, elapsedTime, matrix, shadow, trip, controllerVars>>

\* return { ballsData, giftsData, lightsData, shellsData }; the meshes are
\* created with ballsData.length, ... instances, every matrix the identity.
BuildReturn ==
    /\ data.pc = "loop"
    /\ data.i = data.count
    /\ data' = [data EXCEPT !.pc = "built"]
    /\ matrix' = [i \in 1..Len(AllData(data)) |->
                     [position |-> <<0, 0, 0>>, rotation |-> <<0, 0>>,
                      scale |-> <<Unit, Unit, Unit>>]]
    /\ shadow' = [frames |-> 0, plain |-> [i \in 1..Len(AllData(data)) |-> <<0, 0, 0>>],
                  jitter |-> [i \in 1..Len(AllData(data)) |-> 0]]
    /\ UNCHANGED <<mode, progressRef, elapsedTime, trip, controllerVars>>

\* A rendered frame of the built scene.
BuildFrame(delta) ==
    /\ data.pc = "built"
    /\ shadow.frames < MaxBuildFrames
    /\ FrameStep(delta)
    /\ UNCHANGED trip

\* The owner changes Mode in the built scene.
BuildSetMode(m) ==
    /\ data.pc = "built"
    /\ SetMode(m)

NextBuild ==
    \/ \E rnd \in Rnds : Generate(rnd)
    \/ BuildReturn
    \/ \E delta \in Deltas : BuildFrame(delta)
    \/ \E m \in Modes : BuildSetMode(m)

SpecBuild == InitBuild /\ [][NextBuild]_vars

\* The places (list, position) at which the element of iteration k is held.
PlacesOf(k) ==
    {pl \in Lists \X (1..data.i) :
        pl[2] <= Len(data[pl[1]]) /\ data[pl[1]][pl[2]].index = k}

\* ------------------------------------------------------------ claims

\* C1 (as claimed): in a run of frames that began with lastModeRef equal to
\* Mode and saw no direct set of Mode, onModeChange is called at most once,
\* however the frames interleave with the refresh of lastModeRef.
C1_EmittedAtMostOncePerRun == runFrom \in Modes => runEmits <= 1

\* C2: in a run of open frames that began from Mode = FORMED, Mode is still
\* FORMED and has not changed while openFrames <= CONFIDENCE_THRESHOLD, and
\* is CHAOS after exactly one change once openFrames exceeds it.
C2_OpenRunFlipsOnce ==
    (runFrom = "FORMED" /\ openFrames > 0) =>
        IF openFrames > CONFIDENCE_THRESHOLD
        THEN runFlips = 1 /\ mode = "CHAOS"
        ELSE runFlips = 0 /\ mode = "FORMED"

C2_Witness ==
    /\ runFrom = "FORMED"
    /\ openFrames = CONFIDENCE_THRESHOLD + 2
    /\ runFlips = 1
    /\ runEmits = 2

\* C3: in a run of closed frames that began from Mode = CHAOS, Mode is still
\* CHAOS and has not changed while closedFrames <= CONFIDENCE_THRESHOLD, and
\* is FORMED after exactly one change once closedFrames exceeds it.
C3_ClosedRunFlipsOnce ==
    (runFrom = "CHAOS" /\ closedFrames > 0) =>
        IF closedFrames > CONFIDENCE_THRESHOLD
        THEN runFlips = 1 /\ mode = "FORMED"
        ELSE runFlips = 0 /\ mode = "CHAOS"

C3_Witness ==
    /\ runFrom = "CHAOS"
    /\ closedFrames = CONFIDENCE_THRESHOLD + 2
    /\ runFlips = 1
    /\ lastModeRef = "FORMED"

\* C4: a frame with no detected hand leaves both run counters 0, leaves Mode
\* as it was and calls onModeChange not at all.
C4_NoHandResets ==
    [][io'.kind = "nohand" =>
          /\ openFrames' = 0
          /\ closedFrames' = 0
          /\ mode' = mode
          /\ io'.emit = "none"]_vars

\* A no-hand frame that arrived right after a run had committed a Mode
\* change (lastModeRef not yet refreshed).
C4_Witness ==
    /\ io.kind = "nohand"
    /\ mode # lastModeRef
    /\ runFrom = "none"
    /\ openFrames = 0
    /\ closedFrames = 0

\* C5: both run counters are >= 0 and at most one of them is non-zero.
C5_CountersExclusive ==
    /\ openFrames >= 0
    /\ closedFrames >= 0
    /\ openFrames = 0 \/ closedFrames = 0

\* An open frame that followed a closed run which had committed FORMED.
C5_Witness ==
    /\ io.kind = "open"
    /\ openFrames = 1
    /\ closedFrames = 0
    /\ runFrom = "unsettled"
    /\ mode = "FORMED"

\* C6: a frame with 2 or 3 extended fingers leaves both run counters and
\* Mode as they were.
C6_AmbiguousHolds ==
    [][io'.kind = "ambiguous" =>
          /\ openFrames' = openFrames
          /\ closedFrames' = closedFrames
          /\ mode' = mode]_vars

\* An ambiguous frame inside a closed run: closedFrames is held, not reset.
C6_Witness ==
    /\ io.kind = "ambiguous"
    /\ closedFrames = 3
    /\ openFrames = 0

\* C7: fed 4,4,4,4,4,4 from Mode = FORMED with the counters at 0, Mode
\* changes on the 6th frame and on no earlier one; and whatever is fed, no
\* frame calls onModeChange while its run counter is <= CONFIDENCE_THRESHOLD.
C7_FlipsOnSixthFrame ==
    /\ \A k \in 1..Len(log) :
         /\ log[k].emit = "CHAOS" => log[k].open > CONFIDENCE_THRESHOLD
         /\ log[k].emit = "FORMED" => log[k].closed > CONFIDENCE_THRESHOLD
    /\ (log # <<>> /\ log[1].before = "FORMED" /\ IsPrefix(Fed, Script7)) =>
         \A k \in 1..Len(log) :
            /\ log[k].open = k
            /\ (log[k].before # log[k].after) <=> (k = 6)
            /\ log[k].after = IF k >= 6 THEN "CHAOS" ELSE "FORMED"

C7_Witness ==
    /\ Fed = Script7
    /\ log[1].before = "FORMED"
    /\ log[6].emit = "CHAOS"
    /\ mode = "CHAOS"

\* C8: fed 0,0,0,3,0,0,0,0,0 from Mode = CHAOS with the counters at 0,
\* closedFrames runs 1,2,3,3,4,5,6,7,8 and Mode changes, to FORMED, on the
\* frame where closedFrames first exceeds 5 and on no other.
C8_ClosedRunSequence == <<1, 2, 3, 3, 4, 5, 6, 7, 8>>

C8_AmbiguousFrameHolds ==
    (log # <<>> /\ log[1].before = "CHAOS" /\ IsPrefix(Fed, Script8)) =>
        \A k \in 1..Len(log) :
            /\ log[k].closed = C8_ClosedRunSequence[k]
            /\ log[k].open = 0
            /\ (log[k].before # log[k].after) <=>
                   /\ log[k].closed > 5
                   /\ \A j \in 1..(k - 1) : log[j].closed <= 5
            /\ log[k].before # log[k].after => log[k].after = "FORMED"

C8_Witness ==
    /\ Fed = Script8
    /\ log[1].before = "CHAOS"
    /\ log[7].before = "CHAOS"
    /\ log[7].after = "FORMED"
    /\ mode = "FORMED"

\* C9 (as claimed): after a direct set of Mode made while a run counter
\* already exceeded the threshold (and lastModeRef was up to date), no frame
\* of that run calls onModeChange with a value other than the current Mode,
\* that is, none sets Mode back.
C9_OverrideNotFought ==
    [][(runFrom = "overriddenAboveT" /\ io'.emit # "none") => io'.emit = mode]_vars

\* C10: once the effect cleanup has run, no step calls the detector, changes
\* a run counter, calls onModeChange, or reports a hand position or the
\* two-hand flag.
C10_NothingAfterCleanup ==
    [][~isMounted =>
          /\ io'.kind \in {"none", "skip"}
          /\ io'.emit = "none"
          /\ UNCHANGED <<openFrames, closedFrames, handPos, twoHands, gestureStatus>>]_vars

\* A callback that ran after the cleanup and was stopped by the liveness flag
\* alone: the detector had been created and the video element is still there.
C10_Witness ==
    /\ ~isMounted
    /\ io.kind = "skip"
    /\ videoRef # "null"
    /\ handLandmarker # "null"

\* C11 (as claimed): a detectForVideo call that throws is handled as a frame
\* with no hand: the status becomes "No hand detected", both run counters
\* are reset, and the next frame callback is requested, so that the loop
\* goes on.
C11_FailureIsNoHand ==
    [][io'.kind = "throw" =>
          /\ gestureStatus' = "No hand detected"
          /\ openFrames' = 0
          /\ closedFrames' = 0
          /\ idPending']_vars

\* C12: once setupMediaPipe or startWebcam has failed, predictWebcam is
\* registered nowhere and no frame callback is pending, so the classifier
\* has processed no frame and never will: no onModeChange call, both run
\* counters 0, no valid hand position reported; and a component that is
\* still mounted shows the failure as its status.
C12_UnavailableIsNonFatal ==
    setupPc \in {"failed", "denied"} =>
        /\ ~listener
        /\ rafPending = 0
        /\ ~idPending
        /\ io.kind = "none"
        /\ io.emit = "none"
        /\ openFrames = 0
        /\ closedFrames = 0
        /\ handPos.detected = FALSE
        /\ twoHands = FALSE
        /\ isMounted =>
              gestureStatus = IF setupPc = "failed"
                              THEN "Gesture control unavailable"
                              ELSE "Webcam Permission Denied"

\* Webcam permission was denied after the detector had been created, and
\* the owner has set Mode since.
C12_Witness ==
    /\ setupPc = "denied"
    /\ isMounted
    /\ handLandmarker = "open"
    /\ gestureStatus = "Webcam Permission Denied"
    /\ mode # lastModeRef

\* C13: after every processed detection result the reported two-hand flag
\* equals (number of detected hands >= 2), whatever the first hand
\* classifies as; after a result with no hand it is FALSE.
C13_TwoHandFlag ==
    Processed =>
        /\ twoHands = (Len(LastHands) >= 2)
        /\ Len(LastHands) = 0 => ~twoHands

\* Two hands in the frame, the first one ambiguous.
C13_Witness ==
    /\ Processed
    /\ Len(LastHands) = 2
    /\ io.kind = "ambiguous"
    /\ twoHands

\* C14: after every processed detection result the reported validity flag is
\* TRUE exactly when the result held a hand, and the reported position is
\* then the mean of landmarks 0, 5, 9, 13, 17 of the first hand.
C14_PositionPublished ==
    Processed =>
        IF Len(LastHands) = 0
        THEN handPos.detected = FALSE
        ELSE /\ handPos.detected = TRUE
             /\ 5 * handPos.x = LastHands[1][1][1] + LastHands[1][6][1]
                    + LastHands[1][10][1] + LastHands[1][14][1] + LastHands[1][18][1]
             /\ 5 * handPos.y = LastHands[1][1][2] + LastHands[1][6][2]
                    + LastHands[1][10][2] + LastHands[1][14][2] + LastHands[1][18][2]

\* Two hands in the frame: the position reported is the palm of the first
\* (wrist at WristB), not of the second.
C14_Witness ==
    /\ Processed
    /\ Len(LastHands) = 2
    /\ LastHands[1][1] = WristB
    /\ handPos = [x |-> 30, y |-> 56, detected |-> TRUE]

\* C15 (as claimed): after any history of open, closed, ambiguous, no-hand
\* or failed frames, a clear gesture held for more than CONFIDENCE_THRESHOLD
\* consecutive frames eventually leaves Mode equal to the value the gesture
\* commits to.
C15_Recoverable == <>(mode = HeldCommit)

\* The round trip of C16: the state once Mode has gone A -> B -> A with the
\* same number of equal frames spent in B and back in A.
C16_FoliageBack ==
    \A pt \in Points : \A k \in 1..3 :
        Abs(BlendPos(pt, progressRef)[k] - BlendPos(pt, trip.origin)[k]) <= Epsilon

C16_OrnamentBack(i) ==
    \A k \in 1..3 :
        Abs(matrix[i].position[k] - (IF k = 2 THEN shadow.jitter[i] ELSE 0)
              - Dest(Instances[i], trip.home)[k]) <= Epsilon

C17_FoliageAtRest == Abs(progressRef - TargetOf(mode)) <= Epsilon

C17_InstanceAtRest(i) ==
    \A k \in 1..3 :
        Abs(matrix[i].position[k] - Dest(Instances[i], mode)[k]) <= Epsilon

C17_RestFrame == IsFrame /\ mode' = mode

C18_ProgressMonotone ==
    [][/\ IsFrame =>
              /\ 0 <= progressRef' /\ progressRef' <= Unit
              /\ progressRef <= TargetOf(mode) =>
                    (progressRef <= progressRef' /\ progressRef' <= TargetOf(mode))
              /\ progressRef >= TargetOf(mode) =>
                    (progressRef >= progressRef' /\ progressRef' >= TargetOf(mode))
       /\ mode' # mode => progressRef' = progressRef]_vars

\* Phases at which the effective progress is compared.
C19_Phases == {(k * 999) \div 9 : k \in 0..9}

\* C19: the effective progress of every element is in [0, 1] and, at a fixed
\* group progress, does not increase with the element's phase; at group
\* progress 0 every element is at its scattered position and at group
\* progress 1 every element is at its formed position, whatever its phase.
C19_EffectiveProgress ==
    /\ \A r \in C19_Phases :
          /\ LocalProgress(progressRef, r) \in 0..Unit
          /\ \A q \in C19_Phases :
                r <= q => LocalProgress(progressRef, r) >= LocalProgress(progressRef, q)
          /\ progressRef = 0 => LocalProgress(progressRef, r) = 0
          /\ progressRef = Unit => LocalProgress(progressRef, r) = Unit
    /\ progressRef = 0 =>
          \A pt \in Points : \A k \in 1..3 :
              BlendPos(pt, progressRef)[k] = aChaosPos[pt][k]
    /\ progressRef = Unit =>
          \A pt \in Points : \A k \in 1..3 :
              BlendPos(pt, progressRef)[k] = aTargetPos(pt)[k]

\* The group progress has reached 1 after rendered frames.
C19_Witness == mode = "FORMED" /\ progressRef = Unit /\ elapsedTime > 0

\* C20: jitter is purely additive on top of the blended position: each
\* instance's position less the jitter of its last frame is the position the
\* interpolation alone produces; jitter never feeds back into it.
C20_JitterNotFedBack ==
    \A i \in Ids :
        /\ matrix[i].position[1] = shadow.plain[i][1]
        /\ matrix[i].position[2] - shadow.jitter[i] = shadow.plain[i][2]
        /\ matrix[i].position[3] = shadow.plain[i][3]

\* C21: a rendered frame or a change of Mode leaves every element's fixed
\* data (scattered position, formed position, phase, speed) as generated at
\* build time; a frame changes only the transforms, the clock and the
\* progress value.
C21_FixedDataKept ==
    [][/\ data.pc = "built" => data' = data
       /\ IsFrame => UNCHANGED <<mode, controllerVars>>]_vars

\* Frames rendered in both Modes with the generated data as built.
C21_Witness ==
    /\ shadow.frames >= 2
    /\ mode = "CHAOS"
    /\ progressRef > 0
    /\ \E i \in Ids : matrix[i].position # <<0, 0, 0>>
    /\ data = BuiltData

\* C23: at every point of the layout loop each element generated so far is
\* held at exactly one place, in the list of its own type, and the sizes of
\* the four lists sum to the number generated (count once the loop is done);
\* the built lists never change afterwards.
C23_ExclusiveTotal ==
    /\ [](/\ \A k \in 0..(data.i - 1) : Cardinality(PlacesOf(k)) = 1
          /\ Len(data.balls) + Len(data.gifts) + Len(data.lights) + Len(data.shells)
               = data.i
          /\ data.pc = "built" => data.i = data.count
          /\ \A j \in 1..Len(data.balls) : data.balls[j].type = "ball"
          /\ \A j \in 1..Len(data.gifts) : data.gifts[j].type = "gift"
          /\ \A j \in 1..Len(data.lights) : data.lights[j].type = "light"
          /\ \A j \in 1..Len(data.shells) : data.shells[j].type = "shell")
    /\ [][data.pc = "built" =>
            \A L \in Lists : data'[L] = data[L]]_vars

\* A population of three types built and animated.
C23_Witness ==
    /\ data.pc = "built"
    /\ data.count = 3
    /\ Len(data.lights) = 1
    /\ Len(data.gifts) = 1
    /\ Len(data.shells) = 1
    /\ shadow.frames > 0

\* C22: at any time at most one ingestion step is scheduled: no second chain
\* of frame callbacks is pending next to the first, whatever loadeddata
\* events and teardown happen.
C22_SingleChain == rafPending <= 1

\* The detection results that agree with hands on the first hand.
C24_Twins(hands) == {hs \in HandLists : Len(hs) > 0 /\ hs[1] = hands[1]}

\* C24: a frame with a hand leaves the run counters, the onModeChange call
\* and the published position as the code computes them for every frame with
\* the same first hand (alone, or with any second hand); the second hand
\* shows in the two-hand flag only.
C24_FirstHandOnly ==
    [][io'.kind \in {"open", "closed", "ambiguous"} =>
          /\ twoHands' = (Len(LastHands') >= 2)
          /\ \A hs \in C24_Twins(LastHands') :
                LET h == ClassifiedHand(hs)
                    kind == Classify(ExtendedFingers(h))
                    cnt == CountersAfter(kind, openFrames, closedFrames)
                IN  /\ openFrames' = cnt[1]
                    /\ closedFrames' = cnt[2]
                    /\ io'.kind = kind
                    /\ io'.emit = Emission(kind, cnt[1], cnt[2], lastModeRef)
                    /\ handPos' = [x |-> PalmCenter(h)[1], y |-> PalmCenter(h)[2],
                                   detected |-> TRUE]]_vars

\* An open first hand held next to a closed second hand: the open run commits.
C24_Witness ==
    /\ Processed
    /\ Len(LastHands) = 2
    /\ ExtendedFingers(LastHands[1]) = 4
    /\ ExtendedFingers(LastHands[2]) = 0
    /\ twoHands
    /\ openFrames > CONFIDENCE_THRESHOLD
    /\ closedFrames = 0
    /\ io.emit = "CHAOS"

\* C25: a detector that is open once the effect has been cleaned up is
\* eventually closed.
C25_EventuallyClosed ==
    (handLandmarker = "open" /\ ~isMounted) ~> (handLandmarker = "closed")

====
